---- MODULE Spec2Model ----
(***************************************************************************)
(* Model of the valuation and simulation engine of the financial          *)
(* forecasting repository:                                                 *)
(*   src/src/forecasting.py  project_revenue, build_forecast               *)
(*   src/src/valuation.py    calc_free_cash_flow, discount_cash_flows,     *)
(*                           terminal_value_gordon, compute_dcf_value      *)
(*   src/src/simulation.py   run_mc_simulation                             *)
(*                                                                         *)
(* Real numbers are exact rationals <<n, d>> in lowest terms with d > 0.   *)
(* The three IEEE specials that numpy's array division can produce are the *)
(* pairs with d = 0: <<0,0>> is nan, <<1,0>> is +inf and <<-1,0>> is -inf. *)
(* Rounding of binary floating point is not modelled.                      *)
(***************************************************************************)
EXTENDS Integers, Sequences, FiniteSets, TLC

\* ------------------------------------------------------------------ bounds

\* longest horizon / FCFF sequence handed to the pure functions
MaxYears == 3
\* largest n_sims of a Monte Carlo run
MaxTrials == 3

\* ------------------------------------------------------- exact arithmetic

Abs(x) == IF x < 0 THEN -x ELSE x

Sgn(x) == IF x < 0 THEN -1 ELSE IF x > 0 THEN 1 ELSE 0

RECURSIVE GCD(_, _)
GCD(a, b) == IF b = 0 THEN a ELSE GCD(b, a % b)

\* the rational n/d in lowest terms (d # 0)
Rat(n, d) ==
    LET g == GCD(Abs(n), Abs(d))
        s == Sgn(d)
    IN  <<(s * n) \div g, (s * d) \div g>>

Zero == <<0, 1>>
One == <<1, 1>>
NaN == <<0, 0>>
PosInf == <<1, 0>>
NegInf == <<-1, 0>>

IsFinite(x) == x[2] # 0
IsNaN(x) == x = NaN

RNeg(x) == <<-x[1], x[2]>>

\* x + y over the common denominator lcm(dx, dy)
RAdd(x, y) ==
    LET g == GCD(x[2], y[2])
        lx == y[2] \div g
        ly == x[2] \div g
    IN  Rat(x[1] * lx + y[1] * ly, x[2] * lx)

RSub(x, y) == RAdd(x, RNeg(y))

\* x * y, cross-reduced before multiplying
RMul(x, y) ==
    LET a == Rat(x[1], y[2])
        b == Rat(y[1], x[2])
    IN  Rat(a[1] * b[1], a[2] * b[2])

\* x / y for y # 0
RDiv(x, y) == RMul(x, Rat(y[2], y[1]))

RLe(x, y) == x[1] * y[2] <= y[1] * x[2]
RLt(x, y) == x[1] * y[2] < y[1] * x[2]

\* Python's max(a, b): b when b > a, else a
PyMax(a, b) == IF RLt(a, b) THEN b ELSE a
\* Python's min(a, b): b when b < a, else a
PyMin(a, b) == IF RLt(b, a) THEN b ELSE a

\* x ** k for an integer k >= 0
RECURSIVE RPow(_, _)
RPow(x, k) == IF k <= 0 THEN One ELSE RMul(x, RPow(x, k - 1))

\* numpy float division of array elements: x / 0 is +-inf or nan, no error
NpDiv(x, y) ==
    IF y = Zero THEN <<Sgn(x[1]), 0>> ELSE RDiv(x, y)

\* IEEE addition over the finite values and the three specials
NpAdd(x, y) ==
    IF IsFinite(x) /\ IsFinite(y) THEN RAdd(x, y)
    ELSE IF IsNaN(x) \/ IsNaN(y) THEN NaN
    ELSE IF IsFinite(x) THEN y
    ELSE IF IsFinite(y) THEN x
    ELSE IF x = y THEN x ELSE NaN

\* np.sum of a float array (0.0 for the empty array)
RECURSIVE NpSum(_)
NpSum(s) == IF s = <<>> THEN Zero ELSE NpAdd(NpSum(SubSeq(s, 1, Len(s) - 1)), s[Len(s)])

\* ----------------------------------------------------- src/forecasting.py

\* Python's None for the optional start_year; a given year y is <<y>>
None == <<>>

\* pd.Series(arr): the values with pandas' default RangeIndex 0..len-1
Series(arr) == [index |-> [k \in 1..Len(arr) |-> k - 1], values |-> arr]

\* series * scalar, element by element, index kept
SMulScalar(s, c) == [index |-> s.index, values |-> [k \in 1..Len(s.values) |-> RMul(s.values[k], c)]]

\* series + series and series - series on the same index
SAdd(s, t) == [index |-> s.index, values |-> [k \in 1..Len(s.values) |-> RAdd(s.values[k], t.values[k])]]
SSub(s, t) == [index |-> s.index, values |-> [k \in 1..Len(s.values) |-> RSub(s.values[k], t.values[k])]]

\* variant: exponents 0..years-1, as range(0, years) would give
project_revenue_from_zero(last_value, growth_rate, years) ==
    Series([k \in 1..years |-> RMul(last_value, RPow(RAdd(One, growth_rate), k - 1))])

project_revenue(last_value, growth_rate, years) ==
    Series([k \in 1..years |-> RMul(last_value, RPow(RAdd(One, growth_rate), k))])

ColumnNames == {"Revenue", "EBITDA", "Depreciation", "EBIT", "NOPAT", "Capex", "WorkingCapital", "FCFF"}

\* the row labels build_forecast leaves on the table
forecast_index(rev, years, start_year) ==
    IF start_year # None
    THEN [k \in 1..years |-> start_year[1] + k]
    ELSE rev.index

\* variant: EBIT multiplied by tax_rate instead of (1 - tax_rate)
nopat_series_taxed(ebit, tax_rate) == SMulScalar(ebit, tax_rate)

nopat_series(ebit, tax_rate) == SMulScalar(ebit, RSub(One, tax_rate))

\* a is the assumption set: last_revenue, growth, ebitda_margin, capex_pct,
\* dep_pct, wc_pct, tax_rate
build_forecast(a, years, start_year) ==
    LET rev == project_revenue(a.last_revenue, a.growth, years)
        ebitda == SMulScalar(rev, a.ebitda_margin)
        dep == SMulScalar(rev, a.dep_pct)
        ebit == SSub(ebitda, dep)
        nopat == nopat_series(ebit, a.tax_rate)
        capex == SMulScalar(rev, a.capex_pct)
        wc == SMulScalar(rev, a.wc_pct)
        fcff == SSub(SSub(SAdd(nopat, dep), capex), wc)
    IN  [index |-> forecast_index(rev, years, start_year),
         cols |-> [c \in ColumnNames |->
                    CASE c = "Revenue" -> rev.values
                      [] c = "EBITDA" -> ebitda.values
                      [] c = "Depreciation" -> dep.values
                      [] c = "EBIT" -> ebit.values
                      [] c = "NOPAT" -> nopat.values
                      [] c = "Capex" -> capex.values
                      [] c = "WorkingCapital" -> wc.values
                      [] c = "FCFF" -> fcff.values]]

\* ------------------------------------------------------- src/valuation.py

\* outcome of a call: a returned value, or the exception that left it
Ok(v) == [err |-> "none", val |-> v]
Raise(e) == [err |-> e, val |-> NaN]

\* ValueError("forecast_df must contain 'FCFF' column") or the FCFF values
calc_free_cash_flow(forecast_df) ==
    IF "FCFF" \notin DOMAIN forecast_df.cols
    THEN Raise("MissingColumn")
    ELSE [err |-> "none", val |-> forecast_df.cols["FCFF"]]

\* the defaults of wacc_calc: cost_of_debt when None, tax_rate when omitted
DefaultCostOfDebt == Rat(35, 1000)
DefaultTaxRate == Rat(21, 100)

\* variant: only a negative total is rejected, a zero total reaches the division
wacc_calc_negative_only(beta, rf, rm, market_debt, market_equity, cost_of_debt, tax_rate) ==
    LET re == RAdd(rf, RMul(beta, RSub(rm, rf)))
        cod == IF cost_of_debt = None THEN DefaultCostOfDebt ELSE cost_of_debt
        tax == IF tax_rate = None THEN DefaultTaxRate ELSE tax_rate
        total == RAdd(market_debt, market_equity)
    IN  IF RLt(total, Zero) THEN Raise("InvalidWeights")
        ELSE IF total = Zero THEN Raise("ZeroDivisionError")
        ELSE LET wd == RDiv(market_debt, total)
                 we == RDiv(market_equity, total)
             IN  Ok(RAdd(RMul(we, re), RMul(RMul(wd, cod), RSub(One, tax))))

\* ValueError("market_debt + market_equity must be > 0") when total <= 0;
\* cost_of_debt and tax_rate are None when the caller leaves them out
wacc_calc(beta, rf, rm, market_debt, market_equity, cost_of_debt, tax_rate) ==
    LET re == RAdd(rf, RMul(beta, RSub(rm, rf)))
        cod == IF cost_of_debt = None THEN DefaultCostOfDebt ELSE cost_of_debt
        tax == IF tax_rate = None THEN DefaultTaxRate ELSE tax_rate
        total == RAdd(market_debt, market_equity)
    IN  IF RLe(total, Zero) THEN Raise("InvalidWeights")
        ELSE LET wd == RDiv(market_debt, total)
                 we == RDiv(market_equity, total)
             IN  Ok(RAdd(RMul(we, re), RMul(RMul(wd, cod), RSub(One, tax))))

\* variant: the operands of the division are swapped
discount_cash_flows_swapped(fcfs, wacc) ==
    LET n == Len(fcfs)
        discount_factors == [k \in 1..n |-> RPow(RAdd(One, wacc), k)]
    IN  [pv |-> NpSum([k \in 1..n |-> NpDiv(discount_factors[k], fcfs[k])]),
         discount_factors |-> discount_factors]

\* (pv_sum, discount_factors); numpy array arithmetic, so it never raises
discount_cash_flows(fcfs, wacc) ==
    LET n == Len(fcfs)
        discount_factors == [k \in 1..n |-> RPow(RAdd(One, wacc), k)]
    IN  [pv |-> NpSum([k \in 1..n |-> NpDiv(fcfs[k], discount_factors[k])]),
         discount_factors |-> discount_factors]

\* variant: the comparison is reversed, wacc >= g is rejected
terminal_value_gordon_reversed(fcff_last, wacc, g) ==
    IF RLe(g, wacc)
    THEN Raise("InvalidDiscounting")
    ELSE Ok(RDiv(RMul(fcff_last, RAdd(One, g)), RSub(wacc, g)))

\* variant: the guard is wacc < g, so wacc = g reaches the division
terminal_value_gordon_strict(fcff_last, wacc, g) ==
    IF RLt(wacc, g)
    THEN Raise("InvalidDiscounting")
    ELSE IF RSub(wacc, g) = Zero THEN Raise("ZeroDivisionError")
    ELSE Ok(RDiv(RMul(fcff_last, RAdd(One, g)), RSub(wacc, g)))

\* ValueError("WACC must be greater than terminal growth g") when wacc <= g
terminal_value_gordon(fcff_last, wacc, g) ==
    IF RLe(wacc, g)
    THEN Raise("InvalidDiscounting")
    ELSE Ok(RDiv(RMul(fcff_last, RAdd(One, g)), RSub(wacc, g)))

\* variant: the terminal value is discounted one period further
discount_terminal_next_year(tv, wacc, fcfs) ==
    LET n == Len(fcfs) + 1
        factor == RPow(RAdd(One, wacc), n)
    IN  IF factor = Zero THEN Raise("ZeroDivisionError") ELSE Ok(RDiv(tv, factor))

\* pv_tv = tv / ((1.0 + wacc) ** n) with n = len(fcfs); Python float
\* division, so a zero factor raises ZeroDivisionError
discount_terminal(tv, wacc, fcfs) ==
    LET n == Len(fcfs)
        factor == RPow(RAdd(One, wacc), n)
    IN  IF factor = Zero THEN Raise("ZeroDivisionError") ELSE Ok(RDiv(tv, factor))

compute_dcf_value(forecast_df, wacc, terminal_g) ==
    LET fc == calc_free_cash_flow(forecast_df)
    IN  IF fc.err # "none" THEN Raise(fc.err)
        ELSE
        LET fcfs == fc.val
            pv_fcfs == discount_cash_flows(fcfs, wacc).pv
        IN  IF Len(fcfs) = 0 THEN Raise("IndexError")   \* fcfs[-1] of an empty array
            ELSE
            LET fcff_last == fcfs[Len(fcfs)]
                tv == terminal_value_gordon(fcff_last, wacc, terminal_g)
            IN  IF tv.err # "none" THEN Raise(tv.err)
                ELSE
                LET pv_tv == discount_terminal(tv.val, wacc, fcfs)
                IN  IF pv_tv.err # "none" THEN Raise(pv_tv.err)
                    ELSE Ok(NpAdd(pv_fcfs, pv_tv.val))

\* ------------------------------------------------------ src/simulation.py

VARIABLES
    args,          \* the arguments of the run_mc_simulation call
    pc,            \* where the call is: start, loop, clamp, build, value, done, raised
    vals,          \* the array of results
    i,             \* index of the current trial (0-based, as range(n_sims) gives)
    locals,        \* the sampled assumptions of the current trial
    forecast_df,   \* the forecast table of the current trial
    ev,            \* the value the current trial assigned last
    call,          \* a direct call of a forecasting / valuation function
    ret            \* what that call returned or raised

vars == <<args, pc, vals, i, locals, forecast_df, ev, call, ret>>

\* the wacc floor of `max(0.001, ...)`
WaccFloor == Rat(1, 1000)
\* the ebitda_margin floor of `max(-0.5, ...)`
MarginFloor == Rat(-1, 2)

\* standard normal variates a draw may take
Deviates == {-1, 0, 1}

\* variant: the scale is ignored and a unit scale used
normal_unit_scale(loc, scale) == {RAdd(loc, Rat(z, 1)) : z \in Deviates}

\* rng.normal(loc, scale) = loc + scale * z
normal(loc, scale) == {RAdd(loc, RMul(scale, Rat(z, 1))) : z \in Deviates}

\* sigma_inputs.get(key, 0)
sigma_get(sigma_inputs, key) ==
    IF key \in DOMAIN sigma_inputs THEN sigma_inputs[key] ELSE Zero

SampledKeys == {"growth", "ebitda_margin", "capex_pct", "dep_pct", "wc_pct", "tax_rate"}

\* wacc = max(0.001, rng.normal(wacc_base, wacc_sigma))
sample_wacc(draw) == PyMax(WaccFloor, draw)

\* variant: tax_rate is only floored at 0, not capped at 1
safety_limits_no_cap(l) ==
    [l EXCEPT !.ebitda_margin = PyMax(MarginFloor, l.ebitda_margin),
              !.capex_pct = PyMax(Zero, l.capex_pct),
              !.dep_pct = PyMax(Zero, l.dep_pct),
              !.wc_pct = PyMax(Zero, l.wc_pct),
              !.tax_rate = PyMax(Zero, l.tax_rate)]

\* the "Safety limits" block
safety_limits(l) ==
    [l EXCEPT !.ebitda_margin = PyMax(MarginFloor, l.ebitda_margin),
              !.capex_pct = PyMax(Zero, l.capex_pct),
              !.dep_pct = PyMax(Zero, l.dep_pct),
              !.wc_pct = PyMax(Zero, l.wc_pct),
              !.tax_rate = PyMin(PyMax(Zero, l.tax_rate), One)]

\* variant: no except clause, the exception leaves the loop
try_compute_dcf_value_uncaught(df, wacc, terminal_g) ==
    compute_dcf_value(df, wacc, terminal_g)

\* try: ev = compute_dcf_value(...)  except Exception: ev = np.nan
try_compute_dcf_value(df, wacc, terminal_g) ==
    LET r == compute_dcf_value(df, wacc, terminal_g)
    IN  IF r.err # "none" THEN Ok(NaN) ELSE Ok(r.val)

\* variant: the value is appended to the array instead of stored at i
store_append(v, idx, e) == Append(v, e)

\* vals[i] = ev (idx is 0-based)
store(v, idx, e) == [v EXCEPT ![idx + 1] = e]

NoLocals == [growth |-> Zero, ebitda_margin |-> Zero, capex_pct |-> Zero, dep_pct |-> Zero,
             wc_pct |-> Zero, tax_rate |-> Zero, wacc |-> Zero, terminal_g |-> Zero]
NoForecast == [index |-> <<>>, cols |-> [c \in {} |-> <<>>]]
NoCall == [op |-> "none"]

\* vals = np.zeros(n_sims); rng = np.random.default_rng()
Start ==
    /\ pc = "start"
    /\ IF args.n_sims < 0
       THEN /\ pc' = "raised"      \* ValueError: negative dimensions are not allowed
            /\ UNCHANGED vals
       ELSE /\ pc' = "loop"
            /\ vals' = [k \in 1..args.n_sims |-> Zero]
    /\ i' = 0
    /\ UNCHANGED <<args, locals, forecast_df, ev, call, ret>>

\* one pass of "Sample operational assumptions" and "Sample discounting assumptions"
Sample ==
    /\ pc = "loop"
    /\ i < args.n_sims
    /\ IF ~(SampledKeys \subseteq DOMAIN args.base_inputs)
       THEN /\ pc' = "raised"      \* KeyError from base_inputs[...]
            /\ UNCHANGED locals
       ELSE /\ pc' = "clamp"
            /\ \E growth \in normal(args.base_inputs["growth"], sigma_get(args.sigma_inputs, "growth")),
                  ebitda_margin \in normal(args.base_inputs["ebitda_margin"], sigma_get(args.sigma_inputs, "ebitda_margin")),
                  capex_pct \in normal(args.base_inputs["capex_pct"], sigma_get(args.sigma_inputs, "capex_pct")),
                  dep_pct \in normal(args.base_inputs["dep_pct"], sigma_get(args.sigma_inputs, "dep_pct")),
                  wc_pct \in normal(args.base_inputs["wc_pct"], sigma_get(args.sigma_inputs, "wc_pct")),
                  tax_rate \in normal(args.base_inputs["tax_rate"], sigma_get(args.sigma_inputs, "tax_rate")),
                  wacc \in normal(args.wacc_base, args.wacc_sigma),
                  terminal_g \in normal(args.terminal_g_base, args.terminal_g_sigma) :
                 locals' = [growth |-> growth, ebitda_margin |-> ebitda_margin,
                            capex_pct |-> capex_pct, dep_pct |-> dep_pct, wc_pct |-> wc_pct,
                            tax_rate |-> tax_rate, wacc |-> sample_wacc(wacc),
                            terminal_g |-> terminal_g]
    /\ UNCHANGED <<args, vals, i, forecast_df, ev, call, ret>>

\* the "Safety limits" block
Clamp ==
    /\ pc = "clamp"
    /\ locals' = safety_limits(locals)
    /\ pc' = "build"
    /\ UNCHANGED <<args, vals, i, forecast_df, ev, call, ret>>

\* the assumption set handed to build_forecast
handed(l, base_inputs) ==
    [last_revenue |-> base_inputs["last_revenue"], growth |-> l.growth,
     ebitda_margin |-> l.ebitda_margin, capex_pct |-> l.capex_pct, dep_pct |-> l.dep_pct,
     wc_pct |-> l.wc_pct, tax_rate |-> l.tax_rate]

\* forecast_df = build_forecast(...)
Build ==
    /\ pc = "build"
    /\ IF "last_revenue" \notin DOMAIN args.base_inputs
       THEN /\ pc' = "raised"      \* KeyError from base_inputs["last_revenue"]
            /\ UNCHANGED forecast_df
       ELSE /\ pc' = "value"
            /\ forecast_df' = build_forecast(handed(locals, args.base_inputs), args.years, args.start_year)
    /\ UNCHANGED <<args, vals, i, locals, ev, call, ret>>

\* the try block and vals[i] = ev, then on to the next trial
Value ==
    /\ pc = "value"
    /\ LET r == try_compute_dcf_value(forecast_df, locals.wacc, locals.terminal_g)
       IN  IF r.err # "none"
           THEN /\ pc' = "raised"
                /\ UNCHANGED <<vals, i, ev>>
           ELSE /\ ev' = r.val
                /\ vals' = store(vals, i, r.val)
                /\ i' = i + 1
                /\ pc' = "loop"
    /\ UNCHANGED <<args, locals, forecast_df, call, ret>>

\* return vals
Return ==
    /\ pc = "loop"
    /\ i >= args.n_sims
    /\ pc' = "done"
    /\ UNCHANGED <<args, vals, i, locals, forecast_df, ev, call, ret>>

\* ----------------------------------------------- inputs of the Monte Carlo run

AllKeys == SampledKeys \cup {"last_revenue"}

\* base assumptions: FCFF of year 1 is 1 with no growth
BaseInputs ==
    [k \in AllKeys |->
        CASE k = "last_revenue" -> Rat(8, 1)
          [] k = "growth" -> Zero
          [] k = "ebitda_margin" -> Rat(1, 2)
          [] k = "capex_pct" -> Rat(1, 4)
          [] k = "dep_pct" -> Rat(1, 4)
          [] k = "wc_pct" -> Zero
          [] k = "tax_rate" -> Rat(1, 2)]

\* base_inputs with one required field left out
Without(key) == [k \in AllKeys \ {key} |-> BaseInputs[k]]

\* a standard deviation wide enough for a draw to cross the field's clamp
WideSigma ==
    [k \in SampledKeys |->
        CASE k = "growth" -> One
          [] k = "ebitda_margin" -> Rat(3, 2)
          [] k = "capex_pct" -> Rat(1, 2)
          [] k = "dep_pct" -> Rat(1, 2)
          [] k = "wc_pct" -> Rat(1, 2)
          [] k = "tax_rate" -> One]

\* sigma_inputs with every entry 0
ZeroSigmas == [k \in SampledKeys |-> Zero]
\* an empty sigma_inputs: every entry defaults to 0
NoSigmas == [k \in {} |-> Zero]
\* sigma_inputs holding one entry only; the others default to 0
OneSigma(key) == [k \in {key} |-> WideSigma[k]]

WaccBase == Rat(1, 2)
TerminalGBase == Rat(1, 4)

\* horizon and start_year of the runs
Horizons == {<<0, None>>, <<1, <<2024>>>>, <<2, None>>}

McCall(n, base, sigmas, h, ws, gs) ==
    [n_sims |-> n, base_inputs |-> base, sigma_inputs |-> sigmas,
     years |-> h[1], start_year |-> h[2],
     wacc_base |-> WaccBase, wacc_sigma |-> ws,
     terminal_g_base |-> TerminalGBase, terminal_g_sigma |-> gs]

McArgs ==
    {McCall(n, BaseInputs, ZeroSigmas, h, ws, gs) :
        n \in -1..MaxTrials, h \in Horizons, ws \in {Zero, One}, gs \in {Zero, Rat(1, 2)}}
    \cup
    {McCall(n, BaseInputs, OneSigma(key), h, Zero, Zero) :
        n \in 0..MaxTrials, h \in Horizons, key \in SampledKeys}
    \cup
    {McCall(n, BaseInputs, NoSigmas, h, Zero, Zero) : n \in 0..MaxTrials, h \in Horizons}
    \cup
    {McCall(n, BaseInputs, ZeroSigmas, h, Zero, Rat(1, 4)) : n \in 0..MaxTrials, h \in Horizons}
    \cup
    {McCall(1, BaseInputs, WideSigma, <<1, None>>, Zero, Zero)}
    \cup
    {McCall(n, Without(key), ZeroSigmas, <<1, None>>, Zero, Zero) :
        n \in 0..MaxTrials, key \in {"growth", "last_revenue"}}

Init ==
    /\ args \in McArgs
    /\ pc = "start"
    /\ vals = <<>>
    /\ i = 0
    /\ locals = NoLocals
    /\ forecast_df = NoForecast
    /\ ev = Zero
    /\ call = NoCall
    /\ ret = NoCall

Next == Start \/ Sample \/ Clamp \/ Build \/ Value \/ Return

Spec == Init /\ [][Next]_vars

\* --------------------------------- direct calls of the forecasting functions

RateValues == {Rat(-1, 2), Zero, Rat(1, 2)}

AssumptionSets ==
    [last_revenue : {One, Rat(8, 1)}, growth : RateValues,
     ebitda_margin : {Zero, Rat(1, 2)}, capex_pct : {Zero, Rat(1, 4)},
     dep_pct : {Zero, Rat(1, 4)}, wc_pct : {Zero, Rat(1, 4)}, tax_rate : {Zero, Rat(1, 2)}]

StartYears == {None, <<2024>>}

\* no call made yet; each behaviour makes one call
InitPure ==
    /\ args = NoCall
    /\ pc = "idle"
    /\ vals = <<>>
    /\ i = 0
    /\ locals = NoLocals
    /\ forecast_df = NoForecast
    /\ ev = Zero
    /\ call = NoCall
    /\ ret = NoCall

CallBuildForecast ==
    /\ call = NoCall
    /\ \E a \in AssumptionSets, years \in 0..MaxYears, start_year \in StartYears :
          /\ call' = [op |-> "build_forecast", a |-> a, years |-> years, start_year |-> start_year]
          /\ ret' = build_forecast(a, years, start_year)
    /\ UNCHANGED <<args, pc, vals, i, locals, forecast_df, ev>>

NextForecast == CallBuildForecast

SpecForecast == InitPure /\ [][NextForecast]_vars

\* ----------------------------------- direct calls of the valuation functions

FcffValues == {Rat(-1, 1), Zero, Rat(2, 1)}

\* FCFF sequences of 0..MaxYears values
RECURSIVE SeqsUpTo(_, _)
SeqsUpTo(S, n) ==
    IF n = 0 THEN {<<>>}
    ELSE LET shorter == SeqsUpTo(S, n - 1)
         IN  shorter \cup {Append(q, x) : q \in {t \in shorter : Len(t) = n - 1}, x \in S}

FcffSeqs == SeqsUpTo(FcffValues, MaxYears)

DiscountRates == {Rat(-2, 1), Rat(-1, 1), Rat(-1, 2), Zero, Rat(1, 2)}

\* a table holding the one column `name`
OneColumn(name, values) ==
    [index |-> [k \in 1..Len(values) |-> k - 1], cols |-> [c \in {name} |-> values]]

CallComputeDcf ==
    /\ call = NoCall
    /\ \E fcfs \in FcffSeqs, name \in {"FCFF", "Revenue"}, wacc \in DiscountRates, terminal_g \in DiscountRates :
          /\ call' = [op |-> "compute_dcf_value", forecast_df |-> OneColumn(name, fcfs),
                      wacc |-> wacc, terminal_g |-> terminal_g]
          /\ ret' = compute_dcf_value(OneColumn(name, fcfs), wacc, terminal_g)
    /\ UNCHANGED <<args, pc, vals, i, locals, forecast_df, ev>>

CallDiscount ==
    /\ call = NoCall
    /\ \E fcfs \in FcffSeqs, wacc \in DiscountRates :
          /\ call' = [op |-> "discount_cash_flows", fcfs |-> fcfs, wacc |-> wacc]
          /\ ret' = discount_cash_flows(fcfs, wacc)
    /\ UNCHANGED <<args, pc, vals, i, locals, forecast_df, ev>>

\* arguments of the direct calls of wacc_calc
Betas == {Zero, One, Rat(3, 2)}
RiskFreeRates == {Zero, Rat(1, 50)}
MarketReturns == {Rat(1, 50), Rat(1, 10)}
MarketValues == {Rat(-1, 1), Zero, One, Rat(3, 1)}
CostsOfDebt == {None, Rat(1, 20)}
TaxRates == {None, Zero, Rat(1, 2)}

CallWaccCalc ==
    /\ call = NoCall
    /\ \E beta \in Betas, rf \in RiskFreeRates, rm \in MarketReturns,
          market_debt \in MarketValues, market_equity \in MarketValues,
          cost_of_debt \in CostsOfDebt, tax_rate \in TaxRates :
          /\ call' = [op |-> "wacc_calc", beta |-> beta, rf |-> rf, rm |-> rm,
                      market_debt |-> market_debt, market_equity |-> market_equity,
                      cost_of_debt |-> cost_of_debt, tax_rate |-> tax_rate]
          /\ ret' = wacc_calc(beta, rf, rm, market_debt, market_equity, cost_of_debt, tax_rate)
    /\ UNCHANGED <<args, pc, vals, i, locals, forecast_df, ev>>

NextValuation == CallComputeDcf \/ CallDiscount \/ CallWaccCalc

SpecValuation == InitPure /\ [][NextValuation]_vars

\* ------------------------------------------- properties of run_mc_simulation

Running == pc \in {"loop", "clamp", "build", "value", "done"}

\* entries 1..i of vals are the ones trials 0..i-1 have written
Written == 1..i

\* the valuation of the current trial fails
ValuationFails ==
    compute_dcf_value(forecast_df, locals.wacc, locals.terminal_g).err # "none"

C1_State ==
    /\ Running => /\ Len(vals) = args.n_sims
                  /\ i \in 0..args.n_sims
    /\ pc = "done" =>
          /\ i = args.n_sims
          /\ Cardinality({k \in 1..Len(vals) : vals[k] = NaN})
               + Cardinality({k \in 1..Len(vals) : vals[k] # NaN}) = args.n_sims

C1_Step ==
    /\ Running /\ vals' # vals =>
          /\ pc = "value"
          /\ Len(vals') = Len(vals)
          /\ \A k \in 1..Len(vals) : k # i + 1 => vals'[k] = vals[k]
    /\ Running /\ i' # i => pc = "value" /\ i' = i + 1
    /\ pc = "value" /\ pc' = "loop" => i' = i + 1 /\ vals'[i + 1] = ev'

\* C1: a returned Value Distribution has length exactly n_sims; the only step
\* that changes vals is the one ending trial i, which writes entry i alone and
\* moves on to trial i + 1, so that every entry is written once, in trial
\* order, and sentinel entries plus valid entries number n_sims.
C1_OneEntryPerTrial == [](C1_State) /\ [][C1_Step]_vars

C1_Witness ==
    /\ pc = "done"
    /\ args.n_sims >= 2
    /\ \E k \in 1..Len(vals) : vals[k] = NaN
    /\ \E k \in 1..Len(vals) : vals[k] # NaN /\ vals[k] # Zero

C2_Step ==
    pc = "value" /\ ValuationFails =>
        /\ pc' = "loop"
        /\ i' = i + 1
        /\ Len(vals') = Len(vals)
        /\ vals'[i + 1] = NaN
        /\ \A k \in 1..Len(vals) : k # i + 1 => vals'[k] = vals[k]

C2_State ==
    /\ pc = "raised" =>
          \/ args.n_sims < 0
          \/ ~(AllKeys \subseteq DOMAIN args.base_inputs)
    /\ pc = "done" => i = args.n_sims

\* C2: a trial whose valuation fails stores the sentinel in its own entry,
\* leaves the other entries alone and hands over to the next trial; the call is
\* left by an exception only for a malformed configuration, and it returns only
\* after all n_sims trials.
C2_FailedTrialIsSentinel == [](C2_State) /\ [][C2_Step]_vars

C2_Witness ==
    /\ pc = "done"
    /\ \E k \in 1..Len(vals) : \E j \in 1..Len(vals) :
          k < j /\ vals[k] = NaN /\ vals[j] # NaN /\ vals[j] # Zero
    /\ \E k \in 2..Len(vals) : vals[k] = NaN /\ vals[k - 1] # NaN

C5_Clamped ==
    pc \in {"build", "value"} =>
        /\ RLe(MarginFloor, locals.ebitda_margin)
        /\ RLe(Zero, locals.capex_pct)
        /\ RLe(Zero, locals.dep_pct)
        /\ RLe(Zero, locals.wc_pct)
        /\ RLe(Zero, locals.tax_rate) /\ RLe(locals.tax_rate, One)
        /\ RLe(WaccFloor, locals.wacc)

C5_Handed ==
    /\ pc = "clamp" => locals'.growth = locals.growth /\ locals'.terminal_g = locals.terminal_g
    /\ pc = "build" /\ pc' = "value" =>
          /\ locals' = locals
          /\ forecast_df'.cols["Revenue"] =
                project_revenue(args.base_inputs["last_revenue"], locals.growth, args.years).values

\* C5: the assumptions a trial hands to build_forecast and compute_dcf_value
\* satisfy ebitda_margin >= -0.5, capex_pct, dep_pct, wc_pct >= 0,
\* 0 <= tax_rate <= 1 and wacc >= 0.001, while growth and terminal_g are the
\* values drawn.
C5_SafetyLimits == [](C5_Clamped) /\ [][C5_Handed]_vars

C5_Witness ==
    /\ pc = "build"
    /\ locals.ebitda_margin = MarginFloor
    /\ locals.capex_pct = Zero
    /\ locals.dep_pct = Zero
    /\ locals.tax_rate = One
    /\ RLt(locals.growth, Zero)

C5_WitnessWacc ==
    pc = "value" /\ locals.wacc = WaccFloor /\ RLt(locals.terminal_g, Zero)

AllSigmasZero ==
    /\ \A k \in DOMAIN args.sigma_inputs : args.sigma_inputs[k] = Zero
    /\ args.wacc_sigma = Zero
    /\ args.terminal_g_sigma = Zero

\* C6: with every sigma 0 each sampled field is its base value (wacc after its
\* floor) and all trials record the same value, or all the sentinel.
C6_ZeroSigmaConstant ==
    pc # "idle" /\ AllSigmasZero =>
        /\ pc = "clamp" =>
              /\ \A k \in SampledKeys : locals[k] = args.base_inputs[k]
              /\ locals.wacc = PyMax(WaccFloor, args.wacc_base)
              /\ locals.terminal_g = args.terminal_g_base
        /\ Running => \A k \in Written : \A j \in Written : vals[k] = vals[j]

C6_Witness ==
    /\ pc = "done"
    /\ AllSigmasZero
    /\ args.n_sims >= 2
    /\ vals[1] # NaN /\ vals[1] # Zero /\ vals[2] = vals[1]

C6_WitnessSentinel ==
    pc = "done" /\ AllSigmasZero /\ args.n_sims >= 2 /\ vals[1] = NaN /\ vals[2] = NaN

\* ---------------------------------------------- properties of build_forecast

IsForecastCall == call.op = "build_forecast"

Col(name) == ret.cols[name]

\* C7: the table has exactly `years` rows, labelled start_year + 1 ..
\* start_year + years when start_year is given and 1..years otherwise.
C7_RowsAndLabels ==
    IsForecastCall =>
        /\ \A c \in ColumnNames : Len(Col(c)) = call.years
        /\ Len(ret.index) = call.years
        /\ \A k \in 1..call.years :
              ret.index[k] = IF call.start_year # None THEN call.start_year[1] + k ELSE k

\* what the code does for C7: without start_year the labels are 0..years-1
C7_LabelsAsBuilt ==
    IsForecastCall =>
        /\ \A c \in ColumnNames : Len(Col(c)) = call.years
        /\ Len(ret.index) = call.years
        /\ \A k \in 1..call.years :
              ret.index[k] = IF call.start_year # None THEN call.start_year[1] + k ELSE k - 1

\* C8: in every row EBITDA = Revenue * ebitda_margin, Depreciation, Capex and
\* WorkingCapital are Revenue times dep_pct, capex_pct and wc_pct,
\* EBIT = EBITDA - Depreciation, NOPAT = EBIT * (1 - tax_rate) and
\* FCFF = NOPAT + Depreciation - Capex - WorkingCapital.
C8_RowIdentities ==
    IsForecastCall =>
        \A k \in 1..Len(Col("Revenue")) :
            /\ Col("EBITDA")[k] = RMul(Col("Revenue")[k], call.a.ebitda_margin)
            /\ Col("Depreciation")[k] = RMul(Col("Revenue")[k], call.a.dep_pct)
            /\ Col("Capex")[k] = RMul(Col("Revenue")[k], call.a.capex_pct)
            /\ Col("WorkingCapital")[k] = RMul(Col("Revenue")[k], call.a.wc_pct)
            /\ RAdd(Col("EBIT")[k], Col("Depreciation")[k]) = Col("EBITDA")[k]
            /\ RAdd(Col("NOPAT")[k], RMul(Col("EBIT")[k], call.a.tax_rate)) = Col("EBIT")[k]
            /\ RAdd(RAdd(Col("FCFF")[k], Col("Capex")[k]), Col("WorkingCapital")[k])
                 = RAdd(Col("NOPAT")[k], Col("Depreciation")[k])

C8_Witness ==
    /\ IsForecastCall
    /\ call.years >= 2
    /\ call.a.tax_rate # Zero
    /\ Col("EBIT")[2] # Zero
    /\ Col("NOPAT")[2] # Col("EBIT")[2]
    /\ Col("FCFF")[2] # Col("NOPAT")[2]
    /\ Col("FCFF")[2] # Col("FCFF")[1]

\* C9: Revenue of year 1 is last_revenue * (1 + growth), each later year is
\* the year before times (1 + growth), so year k is last_revenue *
\* (1 + growth)^k; with growth = 0 every year's Revenue is last_revenue.
C9_RevenueCompounds ==
    IsForecastCall =>
        /\ Len(Col("Revenue")) = call.years
        /\ call.years >= 1 =>
              Col("Revenue")[1] = RMul(call.a.last_revenue, RAdd(One, call.a.growth))
        /\ \A k \in 2..call.years :
              Col("Revenue")[k] = RMul(Col("Revenue")[k - 1], RAdd(One, call.a.growth))
        /\ call.a.growth = Zero =>
              \A k \in 1..call.years : Col("Revenue")[k] = call.a.last_revenue

C9_Witness ==
    /\ IsForecastCall
    /\ call.years >= 3
    /\ call.a.growth = Rat(1, 2)
    /\ call.a.last_revenue = Rat(8, 1)
    /\ Col("Revenue")[3] = Rat(27, 1)

C9_WitnessZeroGrowth ==
    IsForecastCall /\ call.years >= 3 /\ call.a.growth = Zero /\ Col("Revenue")[3] = Rat(8, 1)

\* ------------------------------------ properties of the valuation functions

IsDcfCall == call.op = "compute_dcf_value"
HasFcff == "FCFF" \in DOMAIN call.forecast_df.cols
Fcfs == call.forecast_df.cols["FCFF"]

\* C3 as claimed: with an FCFF column and wacc <= terminal_g the call raises
\* the invalid-discounting error, whatever the number of rows.
C3_AnyForecast ==
    IsDcfCall /\ HasFcff /\ RLe(call.wacc, call.terminal_g) =>
        ret.err = "InvalidDiscounting"

\* C3: with an FCFF column of at least one row and wacc <= terminal_g
\* (wacc = terminal_g included) the call raises the invalid-discounting error
\* to its caller and returns no value.
C3_InvalidDiscounting ==
    IsDcfCall /\ HasFcff /\ Len(Fcfs) >= 1 /\ RLe(call.wacc, call.terminal_g) =>
        ret.err = "InvalidDiscounting"

C3_Witness ==
    /\ IsDcfCall /\ HasFcff /\ Len(Fcfs) >= 2
    /\ call.wacc = call.terminal_g
    /\ ret.err = "InvalidDiscounting"

C3_WitnessBelow ==
    /\ IsDcfCall /\ HasFcff /\ Len(Fcfs) >= 1
    /\ RLt(call.wacc, call.terminal_g)
    /\ ret.err = "InvalidDiscounting"

\* sum over k = 1..n of f[k] / (1 + w)^k
RECURSIVE PresentValue(_, _, _)
PresentValue(f, w, n) ==
    IF n = 0 THEN Zero
    ELSE RAdd(PresentValue(f, w, n - 1), RDiv(f[n], RPow(RAdd(One, w), n)))

\* f[N] * (1 + g) / (w - g), discounted by (1 + w)^N
TerminalPresentValue(f, w, g) ==
    RDiv(RDiv(RMul(f[Len(f)], RAdd(One, g)), RSub(w, g)), RPow(RAdd(One, w), Len(f)))

\* C4 as claimed: for N >= 1 and every wacc > terminal_g the call returns
\* pv_fcfs + pv_tv.
C4_AnyWacc ==
    IsDcfCall /\ HasFcff /\ Len(Fcfs) >= 1 /\ RLt(call.terminal_g, call.wacc) =>
        /\ ret.err = "none"
        /\ ret.val = RAdd(PresentValue(Fcfs, call.wacc, Len(Fcfs)),
                          TerminalPresentValue(Fcfs, call.wacc, call.terminal_g))

\* C4: for N >= 1 and every wacc > terminal_g other than wacc = -1 the call
\* returns the sum of FCFF[k] / (1 + wacc)^k over k = 1..N plus
\* FCFF[N] * (1 + terminal_g) / (wacc - terminal_g) / (1 + wacc)^N.
C4_EnterpriseValue ==
    IsDcfCall /\ HasFcff /\ Len(Fcfs) >= 1 /\ RLt(call.terminal_g, call.wacc)
              /\ call.wacc # Rat(-1, 1) =>
        /\ ret.err = "none"
        /\ ret.val = RAdd(PresentValue(Fcfs, call.wacc, Len(Fcfs)),
                          TerminalPresentValue(Fcfs, call.wacc, call.terminal_g))

C4_Witness ==
    /\ IsDcfCall /\ HasFcff /\ Len(Fcfs) >= 2
    /\ call.wacc = Rat(1, 2) /\ call.terminal_g = Rat(-1, 2)
    /\ Fcfs[Len(Fcfs)] = Rat(2, 1)
    /\ Fcfs[1] = Rat(-1, 1)
    /\ ret.err = "none"
    /\ IsFinite(ret.val) /\ ret.val # Zero

IsDiscountCall == call.op = "discount_cash_flows"
AllZero(f) == \A k \in 1..Len(f) : f[k] = Zero

\* C10 as claimed: an all-zero FCFF sequence has present value 0 at every wacc.
C10_AnyWacc ==
    IsDiscountCall /\ AllZero(call.fcfs) => ret.pv = Zero

\* C10: an all-zero FCFF sequence has present value 0 at every wacc other
\* than -1; at wacc = -1 the discount factors are 0 and a non-empty all-zero
\* sequence gives nan.
C10_ZeroCashFlows ==
    IsDiscountCall /\ AllZero(call.fcfs) =>
        /\ call.wacc # Rat(-1, 1) \/ call.fcfs = <<>> => ret.pv = Zero
        /\ call.wacc = Rat(-1, 1) /\ call.fcfs # <<>> => ret.pv = NaN

C10_Witness ==
    /\ IsDiscountCall /\ AllZero(call.fcfs) /\ Len(call.fcfs) >= 2
    /\ RLt(call.wacc, Rat(-1, 1))
    /\ ret.pv = Zero

C10_WitnessNaN ==
    /\ IsDiscountCall /\ AllZero(call.fcfs) /\ Len(call.fcfs) >= 2
    /\ call.wacc = Rat(-1, 1)
    /\ ret.pv = NaN

\* -------------------------------- configuration errors of run_mc_simulation

IsMcRun == pc # "idle"

\* n_sims <= 0 or a required base field missing
Malformed ==
    \/ args.n_sims <= 0
    \/ ~(AllKeys \subseteq DOMAIN args.base_inputs)

\* a trial has got as far as sampling its assumptions
TrialStarted == pc \in {"clamp", "build", "value"} \/ i > 0

\* C11: a call with n_sims <= 0 or with a required base field missing never
\* starts a trial and never returns an array (it ends in an error), and a call
\* with well-formed configuration is never left by an exception.
C11_OnlyConfigurationErrors ==
    IsMcRun =>
        /\ Malformed => ~TrialStarted /\ pc # "done"
        /\ ~Malformed => pc # "raised"

\* what the code does for C11: only n_sims < 0 and, once a first trial runs,
\* a missing field end in an error; n_sims = 0 returns the empty array whatever
\* base_inputs holds, and a missing last_revenue is noticed only after the first
\* trial has sampled its assumptions.
C11_ErrorsAsBuilt ==
    IsMcRun =>
        /\ pc = "raised" => Malformed /\ i = 0 /\ vals \in {<<>>, [k \in 1..args.n_sims |-> Zero]}
        /\ pc = "done" => args.n_sims >= 0 /\ (args.n_sims >= 1 => ~Malformed)
        /\ args.n_sims < 0 => pc \in {"start", "raised"}
        /\ ~Malformed => pc # "raised"

C11_WitnessEmptyRun ==
    pc = "done" /\ args.n_sims = 0 /\ vals = <<>> /\ "growth" \notin DOMAIN args.base_inputs

\* ------------------------------------------------- properties of wacc_calc

IsWaccCall == call.op = "wacc_calc"

TotalValue == RAdd(call.market_debt, call.market_equity)
CostOfEquity == RAdd(call.rf, RMul(call.beta, RSub(call.rm, call.rf)))
CostOfDebtUsed == IF call.cost_of_debt = None THEN Rat(35, 1000) ELSE call.cost_of_debt
TaxRateUsed == IF call.tax_rate = None THEN Rat(21, 100) ELSE call.tax_rate
WeightDebt == RDiv(call.market_debt, TotalValue)
WeightEquity == RDiv(call.market_equity, TotalValue)

\* C12: wacc_calc raises the invalid-weights error whenever market_debt +
\* market_equity <= 0; otherwise it returns we*re + wd*cost_of_debt*(1 - tax_rate)
\* with re = rf + beta*(rm - rf), wd and we the shares of debt and equity in the
\* total (summing to 1), and cost_of_debt = 0.035 when not given. Multiplied by
\* the total, the value is market_equity*re + market_debt*cost_of_debt*(1 - tax_rate).
C12_WaccCalc ==
    IsWaccCall =>
        /\ RLe(TotalValue, Zero) => ret.err = "InvalidWeights"
        /\ RLt(Zero, TotalValue) =>
              /\ ret.err = "none"
              /\ RAdd(WeightDebt, WeightEquity) = One
              /\ ret.val = RAdd(RMul(WeightEquity, CostOfEquity),
                                RMul(WeightDebt, RMul(CostOfDebtUsed, RSub(One, TaxRateUsed))))
              /\ RMul(ret.val, TotalValue) =
                    RAdd(RMul(call.market_equity, CostOfEquity),
                         RMul(RMul(call.market_debt, CostOfDebtUsed), RSub(One, TaxRateUsed)))

C12_Witness ==
    /\ IsWaccCall
    /\ call.market_debt = Rat(3, 1) /\ call.market_equity = One
    /\ call.cost_of_debt = None /\ call.tax_rate = Rat(1, 2)
    /\ call.beta = Rat(3, 2) /\ call.rf = Rat(1, 50) /\ call.rm = Rat(1, 10)
    /\ ret.err = "none"
    /\ ret.val = Rat(77, 1600)

C12_WitnessZeroTotal ==
    /\ IsWaccCall
    /\ call.market_debt = Zero /\ call.market_equity = Zero
    /\ ret.err = "InvalidWeights"

\* ----------------------------------------- the causes of a sentinel entry

\* years >= 1 and every required base field present
FullHorizon == args.years >= 1 /\ AllKeys \subseteq DOMAIN args.base_inputs

C13_State ==
    pc = "value" /\ FullHorizon =>
        /\ "FCFF" \in DOMAIN forecast_df.cols
        /\ Len(forecast_df.cols["FCFF"]) = args.years
        /\ compute_dcf_value(forecast_df, locals.wacc, locals.terminal_g).err
              \in {"none", "InvalidDiscounting"}

C13_Step ==
    pc = "value" /\ FullHorizon =>
        /\ pc' = "loop"
        /\ vals'[i + 1] = NaN <=> RLe(locals.wacc, locals.terminal_g)
        /\ RLt(locals.terminal_g, locals.wacc) => IsFinite(vals'[i + 1])

\* C13: with years >= 1 and complete base_inputs the forecast handed to the
\* valuation always has an FCFF column of `years` rows, the valuation fails
\* only by the invalid-discounting check, and a trial's entry is the sentinel
\* exactly when its clamped wacc is <= its sampled terminal_g; a trial with
\* wacc > terminal_g records a finite value.
C13_SentinelIffInvalidDiscounting == [](C13_State) /\ [][C13_Step]_vars

C13_Witness ==
    /\ pc = "loop"
    /\ FullHorizon
    /\ i >= 2
    /\ vals[i] = NaN
    /\ locals.wacc = locals.terminal_g
    /\ IsFinite(vals[i - 1]) /\ vals[i - 1] # Zero

C13_WitnessFloor ==
    /\ pc = "loop"
    /\ FullHorizon
    /\ i >= 1
    /\ locals.wacc = WaccFloor
    /\ RLt(locals.terminal_g, Zero)
    /\ IsFinite(vals[i]) /\ vals[i] # Zero

====
